---- MODULE Spec2Model ----
(***************************************************************************)
(* A state-machine model of the slugma e-commerce backend (server.js and   *)
(* the mongoose models Order.js and Product.js; of a user the model keeps  *)
(* what server.js passes to the User model).  Every HTTP handler is        *)
(* one action: it reads the request, the collections and the clock and     *)
(* yields the collections after the handler and the HTTP response.         *)
(*                                                                         *)
(* Conventions.                                                            *)
(*  - A request body is a record; a property the caller did not send is    *)
(*    simply not in the record's domain (JavaScript's undefined).          *)
(*  - Object ids are positive integers; MalformedId stands for a string    *)
(*    that is not a valid ObjectId.                                        *)
(*  - Dates are integers (milliseconds); Null stands for null.  The clock  *)
(*    is read through Date.now() / new Date(); `now` is its last reading   *)
(*    and every later reading is at least `now`.                           *)
(*  - A handler is told whether the store is up.  When it is not, save()    *)
(*    throws and the document is not written; only SpecOutage lets the     *)
(*    store be down.                                                       *)
(*  - Requests are served one after another, except in SpecRace, where     *)
(*    each order route is two steps, its load and its save, and the        *)
(*    steps of different requests interleave.                              *)
(***************************************************************************)
EXTENDS Integers, Sequences, FiniteSets, TLC

VARIABLES
    orders,     \* the Order collection: a sequence, orders[i]._id = i
    reviews,    \* the Review collection: a set of review documents
    products,   \* the Product collection: a set of product documents
    nextProductId, \* the next fresh product _id
    users,      \* the User collection: a set of user documents
    nextUserId, \* the next fresh user _id
    now,        \* the last reading of the clock
    req,        \* the request the last handler served
    res,        \* the response the last handler sent
    calls       \* per order route, the request between its findById and its save

vars == <<orders, reviews, products, nextProductId, users, nextUserId, now, req, res, calls>>

(***************************************************************************)
(* Bounds of the model.                                                    *)
(***************************************************************************)
MaxOrders == 1       \* orders placed in the lifecycle specification
MaxTime == 2         \* the last reading of the clock
MaxShopOrders == 2   \* orders placed in the shop specification
MaxShopProducts == 1 \* products created in the shop specification
MaxDeskOrders == 2   \* orders placed in the order-desk specification
MaxOfficeOrders == 1 \* orders placed in the back-office specification
MaxOutageOrders == 1 \* orders placed in the outage specification
MaxSystemOrders == 1 \* orders placed in the whole-system specification
MaxSystemProducts == 1 \* products created in the whole-system specification
MaxUsers == 1        \* users signed up in the whole-system specification
MaxStampOrders == 1  \* orders placed in the ledger specification
MaxPairOrders == 2   \* orders placed in the pair specification
MaxEnumOrders == 2   \* orders placed in the validator specification
MaxRaceOrders == 1   \* orders placed in the race specification
MaxCatalogProducts == 2 \* products created in the catalog specification

(***************************************************************************)
(* Values.                                                                 *)
(***************************************************************************)
Null == -1
MalformedId == 0

isValidObjectId(id) == id # MalformedId

Has(body, field) == field \in DOMAIN body

\* the empty request body {}
EmptyBody == [x \in {} |-> 0]

(***************************************************************************)
(* models/Order.js                                                         *)
(***************************************************************************)
Pending == "Pending"
Confirmed == "Confirmed"
Processing == "Processing"
Shipped == "Shipped"
Delivered == "Delivered"
Cancelled == "Cancelled"
DeliveredConfirmed == "Delivered & Confirmed"

orderStatusEnum ==
    {Pending, Confirmed, Processing, Shipped, Delivered, Cancelled, DeliveredConfirmed}

Stage1 == "Option 1 - 5 days to delivery"
Stage2 == "Option 2 - 3 days to delivery"
Stage3 == "Option 3 - 2 days to delivery"
Stage4 == "Option 4 - 1 day to delivery"
Stage5 == "Option 5 - Arriving Today"

deliveryOptionEnum == {Stage1, Stage2, Stage3, Stage4, Stage5}

paymentMethodEnum == {"Cash on Delivery", "Google Pay"}

\* String.prototype.trim on the strings the model uses
trim(s) ==
    CASE s = " late " -> "late"
      [] s = "  " -> ""
      [] s = " Asha " -> "Asha"
      [] OTHER -> s

\* /^\d{10}$/ and /^\d{6}$/ on the strings the model uses
isTenDigits(v) == v \in {"9876543210"}
isSixDigits(v) == v \in {"560001"}

\* the schema defaults of a new Order document
orderDefaultAdminMessage == ""
orderDefaultDeliveredAt == Null
orderDefaultCancelledAt == Null

\* mutant of orderStatusValid: the enum validator is missing
orderStatusValid_any(doc) == TRUE

\* the validators of the paths an order handler can modify after creation
orderStatusValid(doc) == doc.orderStatus \in orderStatusEnum
deliveryOptionValid(doc) == doc.deliveryOption \in deliveryOptionEnum

\* the validators of the paths set at creation
lineItemValid(item) ==
    /\ Has(item, "productId") /\ isValidObjectId(item.productId)
    /\ Has(item, "name") /\ item.name # ""
    /\ Has(item, "price")
    /\ Has(item, "quantity") /\ item.quantity >= 1

shippingAddressValid(a) ==
    /\ a.personName # ""
    /\ a.mobileNumber # "" /\ isTenDigits(a.mobileNumber)
    /\ a.address # ""
    /\ a.pincode # "" /\ isSixDigits(a.pincode)
    /\ a.state # ""

orderValid(doc) ==
    /\ isValidObjectId(doc.userId)
    /\ \A i \in DOMAIN doc.products : lineItemValid(doc.products[i])
    /\ shippingAddressValid(doc.shippingAddress)
    /\ doc.paymentMethod \in paymentMethodEnum
    /\ doc.totalPrice >= 0
    /\ orderStatusValid(doc)
    /\ deliveryOptionValid(doc)

\* mutant of orderPreSave: the hook stamps nothing
orderPreSave_noStamp(doc, t) == doc

\* mutant of orderPreSave: the hook stamps createdAt as well
orderPreSave_stampsCreatedAt(doc, t) == [doc EXCEPT !.updatedAt = t, !.createdAt = t]

\* orderSchema.pre('save'): updatedAt = Date.now()
orderPreSave(doc, t) == [doc EXCEPT !.updatedAt = t]

\* Model.findById on the Order collection
orderExists(id) == id \in DOMAIN orders

\* mutant of saveOrder: the write is not filtered by _id
saveOrder_unfiltered(doc) ==
    [i \in DOMAIN orders |->
        IF i = doc._id THEN doc ELSE [orders[i] EXCEPT !.orderStatus = doc.orderStatus]]

\* document.save() of an existing order
saveOrder(doc) == [orders EXCEPT ![doc._id] = doc]

\* mutant of failedSave: the handler saves again and the second save succeeds
failedSave_retried(doc) == [orders EXCEPT ![doc._id] = doc]

\* the collection after a save() of doc that threw and the catch block that
\* answered it
failedSave(doc) == orders

(***************************************************************************)
(* HTTP responses: res.status(code).json({message, ...}).                  *)
(***************************************************************************)
Reply(code, message) == [status |-> code, message |-> message]
ReplyOrder(code, message, doc) == [status |-> code, message |-> message, order |-> doc]

\* mutant of orderNotFound: an unknown id is answered like a malformed one
orderNotFound_badRequest == Reply(400, "Invalid Order ID format.")

\* if (!order) return res.status(404).json({ message: 'Order not found.' })
orderNotFound == Reply(404, "Order not found.")

\* what a handler yields: the Order collection, the clock and the response
Out(store, clock, reply) == [orders |-> store, now |-> clock, res |-> reply]

(***************************************************************************)
(* server.js: the order handlers.                                          *)
(***************************************************************************)
\* !x for a property x of a request object: undefined or the empty string
falsy(body, field) == ~Has(body, field) \/ body[field] = ""

\* the per-item check of POST /api/orders
invalidItem(item) ==
    \/ ~Has(item, "productId") \/ ~isValidObjectId(item.productId)
    \/ falsy(item, "name")
    \/ ~Has(item, "price")
    \/ ~Has(item, "quantity") \/ item.quantity <= 0

\* the shipping-address check of POST /api/orders
invalidShippingAddress(body) ==
    \/ ~Has(body, "shippingAddress")
    \/ falsy(body.shippingAddress, "personName")
    \/ falsy(body.shippingAddress, "address")
    \/ falsy(body.shippingAddress, "mobileNumber")
    \/ falsy(body.shippingAddress, "pincode")
    \/ falsy(body.shippingAddress, "state")

\* mutant of invalidTotalPrice: a total of zero passes
invalidTotalPrice_zeroAllowed(body) == ~Has(body, "totalPrice") \/ body.totalPrice < 0

\* the total-price check of POST /api/orders
invalidTotalPrice(body) == ~Has(body, "totalPrice") \/ body.totalPrice <= 0

\* mutant of placedStatus: the status is taken from the request when it has one
placedStatus_fromBody(body) ==
    IF Has(body, "orderStatus") THEN body.orderStatus ELSE Pending

\* the status and delivery option POST /api/orders gives the new order
placedStatus(body) == Pending
placedDeliveryOption(body) == Stage1

\* new Order({...}) of POST /api/orders, constructed at clock reading t
newOrder(body, t) ==
    [ _id |-> Len(orders) + 1,
      userId |-> body.userId,
      products |-> body.products,
      shippingAddress |->
          [f \in DOMAIN body.shippingAddress |-> trim(body.shippingAddress[f])],
      paymentMethod |-> body.paymentMethod,
      totalPrice |-> body.totalPrice,
      orderStatus |-> placedStatus(body),
      deliveryOption |-> placedDeliveryOption(body),
      adminMessage |-> orderDefaultAdminMessage,
      createdAt |-> t,
      updatedAt |-> t,
      deliveredAt |-> orderDefaultDeliveredAt,
      cancelledAt |-> orderDefaultCancelledAt ]

\* POST /api/orders; the clock reads t1 at construction and t2 in pre('save')
placeOrderHandler(body, t1, t2) ==
    IF ~Has(body, "userId") \/ ~isValidObjectId(body.userId)
    THEN Out(orders, now, Reply(400, "Invalid User ID provided."))
    ELSE IF ~Has(body, "products") \/ Len(body.products) = 0
    THEN Out(orders, now, Reply(400, "Order must contain products."))
    ELSE IF invalidShippingAddress(body)
    THEN Out(orders, now, Reply(400, "All shipping address fields are required."))
    ELSE IF falsy(body, "paymentMethod")
    THEN Out(orders, now, Reply(400, "Payment method is required."))
    ELSE IF invalidTotalPrice(body)
    THEN Out(orders, now, Reply(400, "Total price must be greater than zero."))
    ELSE IF \E i \in DOMAIN body.products : invalidItem(body.products[i])
    THEN Out(orders, now, Reply(400, "Invalid product data in order"))
    ELSE LET doc == newOrder(body, t1) IN
         IF ~orderValid(doc)
         THEN Out(orders, t1, Reply(400, "Validation Error"))
         ELSE LET saved == orderPreSave(doc, t2) IN
              Out(Append(orders, saved), t2,
                  ReplyOrder(201, "Order placed successfully!", saved))

\* mutants of adminUpdateLocked: one of the two early returns is missing
adminUpdateLocked_noCancelled == {DeliveredConfirmed}
adminUpdateLocked_noConfirmed == {Cancelled}

\* the statuses PUT /api/orders/:id refuses to update
adminUpdateLocked == {DeliveredConfirmed, Cancelled}

adminUpdateLockedMessage(status) ==
    IF status = DeliveredConfirmed
    THEN "Cannot update an order that has been confirmed as received by the user."
    ELSE "Cannot update a cancelled order."

\* mutant of applyAdminFields: the message is tested like the other two
\* fields, so an empty message no longer clears the stored one
applyAdminFields_truthyMessage(order, body) ==
    LET a == IF ~falsy(body, "orderStatus")
             THEN [order EXCEPT !.orderStatus = body.orderStatus] ELSE order
        b == IF ~falsy(body, "deliveryOption")
             THEN [a EXCEPT !.deliveryOption = body.deliveryOption] ELSE a
    IN  IF ~falsy(body, "adminMessage")
        THEN [b EXCEPT !.adminMessage = trim(body.adminMessage)] ELSE b

\* the three conditional assignments of PUT /api/orders/:id
applyAdminFields(order, body) ==
    LET a == IF ~falsy(body, "orderStatus")
             THEN [order EXCEPT !.orderStatus = body.orderStatus] ELSE order
        b == IF ~falsy(body, "deliveryOption")
             THEN [a EXCEPT !.deliveryOption = body.deliveryOption] ELSE a
    IN  IF Has(body, "adminMessage")
        THEN [b EXCEPT !.adminMessage = trim(body.adminMessage)] ELSE b

\* PUT /api/orders/:id; the clock reads t in the handler (a reading that
\* pre('save') overwrites with its own, taken to be the same); up tells
\* whether the store takes the write
adminUpdateHandler(id, body, t, up) ==
    IF ~isValidObjectId(id)
    THEN Out(orders, now, Reply(400, "Invalid Order ID format."))
    ELSE IF ~orderExists(id)
    THEN Out(orders, now, orderNotFound)
    ELSE IF orders[id].orderStatus \in adminUpdateLocked
    THEN Out(orders, now, Reply(400, adminUpdateLockedMessage(orders[id].orderStatus)))
    ELSE LET doc == applyAdminFields(orders[id], body) IN
         IF ~(orderStatusValid(doc) /\ deliveryOptionValid(doc))
         THEN Out(orders, t, Reply(400, "Validation Error"))
         ELSE LET saved == orderPreSave([doc EXCEPT !.updatedAt = t], t) IN
              IF ~up
              THEN Out(failedSave(saved), t, Reply(500, "Failed to update order."))
              ELSE Out(saveOrder(saved), t,
                       ReplyOrder(200, "Order updated successfully!", saved))

\* mutant of confirmLocked: a cancelled order is not refused
confirmLocked_noCancelled == {DeliveredConfirmed}

\* mutant of confirmLocked: receipt can be confirmed again
confirmLocked_noConfirmed == {Cancelled}

\* the statuses PUT /api/orders/:id/confirm-received refuses
confirmLocked == {DeliveredConfirmed, Cancelled}

\* mutant of markReceived: deliveredAt is not stamped
markReceived_noDeliveredAt(order, t) ==
    [order EXCEPT !.orderStatus = DeliveredConfirmed, !.updatedAt = t]

\* the assignments of confirm-received, the clock reading t
markReceived(order, t) ==
    [order EXCEPT !.orderStatus = DeliveredConfirmed, !.deliveredAt = t, !.updatedAt = t]

\* PUT /api/orders/:id/confirm-received; the clock reads t1 in the handler
\* and t2 in pre('save')
confirmReceivedHandler(id, t1, t2, up) ==
    IF ~isValidObjectId(id)
    THEN Out(orders, now, Reply(400, "Invalid Order ID format."))
    ELSE IF ~orderExists(id)
    THEN Out(orders, now, orderNotFound)
    ELSE IF orders[id].orderStatus \in confirmLocked
    THEN Out(orders, now,
             Reply(400, "Order cannot be confirmed (already confirmed or cancelled)."))
    ELSE LET saved == orderPreSave(markReceived(orders[id], t1), t2) IN
         IF ~up
         THEN Out(failedSave(saved), t2, Reply(500, "Failed to confirm order receipt."))
         ELSE Out(saveOrder(saved), t2,
                  ReplyOrder(200, "Order marked as received successfully!", saved))

\* mutant of cancelLocked: a cancelled order is not refused
cancelLocked_noCancelled == {DeliveredConfirmed, Delivered, Shipped}

\* the statuses PUT /api/orders/:id/cancel refuses
cancelLocked == {DeliveredConfirmed, Cancelled, Delivered, Shipped}

\* mutant of cancellableDeliveryOptions: the window closes one stage later
cancellableDeliveryOptions_late == {Stage1, Stage2, Stage3}

cancellableDeliveryOptions == {Stage1, Stage2}

CancelStageMessage == "Order cannot be cancelled at this stage (already processed or shipped)."
CancelWindowMessage == "Order can no longer be cancelled (past early delivery stages)."

\* mutant of cancelRejection: the delivery option is checked first
cancelRejection_swapped(order) ==
    IF order.deliveryOption \notin {Stage1, Stage2} THEN CancelWindowMessage
    ELSE IF order.orderStatus \in {DeliveredConfirmed, Cancelled, Delivered, Shipped}
    THEN CancelStageMessage
    ELSE ""

\* the two guards of cancel, in the order the handler evaluates them:
\* the message of the rejection, or "" when the order may be cancelled
cancelRejection(order) ==
    IF order.orderStatus \in cancelLocked THEN CancelStageMessage
    ELSE IF order.deliveryOption \notin cancellableDeliveryOptions THEN CancelWindowMessage
    ELSE ""

\* mutant of markCancelled: the admin message is cleared
markCancelled_clearsMessage(order, t) ==
    [order EXCEPT !.orderStatus = Cancelled, !.cancelledAt = t, !.updatedAt = t,
                  !.adminMessage = ""]

\* the assignments of cancel, the clock reading t
markCancelled(order, t) ==
    [order EXCEPT !.orderStatus = Cancelled, !.cancelledAt = t, !.updatedAt = t]

\* PUT /api/orders/:id/cancel; the clock reads t1 in the handler and t2 in
\* pre('save')
cancelHandler(id, t1, t2, up) ==
    IF ~isValidObjectId(id)
    THEN Out(orders, now, Reply(400, "Invalid Order ID format"))
    ELSE IF ~orderExists(id)
    THEN Out(orders, now, orderNotFound)
    ELSE IF cancelRejection(orders[id]) # ""
    THEN Out(orders, now, Reply(400, cancelRejection(orders[id])))
    ELSE LET saved == orderPreSave(markCancelled(orders[id], t1), t2) IN
         IF ~up
         THEN Out(failedSave(saved), t2, Reply(500, "Failed to cancel order."))
         ELSE Out(saveOrder(saved), t2,
                  ReplyOrder(200, "Order cancelled successfully!", saved))

(***************************************************************************)
(* server.js: the review handler.                                          *)
(***************************************************************************)
\* mutant of existingReview: the earlier review is not looked up
existingReview_never(productId, userId) == FALSE

\* Review.findOne({ productId, userId })
existingReview(productId, userId) ==
    \E r \in reviews : r.productId = productId /\ r.userId = userId

\* mutant of reviewableStatus: delivery is enough, confirmation is not asked
reviewableStatus_delivered == Delivered

\* the status the eligibility query asks for
reviewableStatus == DeliveredConfirmed

\* mutant of hasPurchasedAndConfirmed: the query leaves the buyer out
hasPurchasedAndConfirmed_anyBuyer(userId, productId) ==
    \E i \in DOMAIN orders :
        /\ \E k \in DOMAIN orders[i].products : orders[i].products[k].productId = productId
        /\ orders[i].orderStatus = reviewableStatus

\* Order.exists({ userId, 'products.productId': productId, orderStatus })
hasPurchasedAndConfirmed(userId, productId) ==
    \E i \in DOMAIN orders :
        /\ orders[i].userId = userId
        /\ \E k \in DOMAIN orders[i].products : orders[i].products[k].productId = productId
        /\ orders[i].orderStatus = reviewableStatus

\* the _id of the next review document: one more than the _ids in store
nextReviewId ==
    IF reviews = {} THEN 1
    ELSE 1 + CHOOSE n \in {r._id : r \in reviews} : \A r \in reviews : r._id <= n

\* new Review({ productId, userId, rating, comment: comment || '' })
newReview(body) ==
    [ _id |-> nextReviewId,
      productId |-> body.productId,
      userId |-> body.userId,
      rating |-> body.rating,
      comment |-> IF falsy(body, "comment") THEN "" ELSE body.comment ]

ReviewOut(store, reply) == [reviews |-> store, res |-> reply]

\* POST /api/reviews
submitReviewHandler(body) ==
    IF \/ ~Has(body, "productId") \/ ~isValidObjectId(body.productId)
       \/ ~Has(body, "userId") \/ ~isValidObjectId(body.userId)
    THEN ReviewOut(reviews, Reply(400, "Invalid Product ID or User ID."))
    ELSE IF ~Has(body, "rating") \/ body.rating < 1 \/ body.rating > 5
    THEN ReviewOut(reviews, Reply(400, "Rating must be between 1 and 5 stars."))
    ELSE IF existingReview(body.productId, body.userId)
    THEN ReviewOut(reviews,
                   Reply(409, "You have already submitted a review for this product."))
    ELSE IF ~hasPurchasedAndConfirmed(body.userId, body.productId)
    THEN ReviewOut(reviews,
                   Reply(403, "You can only review products you have purchased and confirmed receipt of."))
    ELSE ReviewOut(reviews \cup {newReview(body)},
                   [status |-> 201, message |-> "Review submitted successfully!",
                    review |-> newReview(body)])

(***************************************************************************)
(* models/Product.js and server.js: the product handlers.  A product       *)
(* document keeps the paths the handlers validate (name, description,      *)
(* category, price, salePrice, stock, sku); form fields arrive as strings. *)
(***************************************************************************)
NaN == -999

\* parseFloat / parseInt on the strings the model uses
parseFloat(s) ==
    CASE s = "10" -> 10
      [] s = "8" -> 8
      [] s = "5" -> 5
      [] s = "0" -> 0
      [] s = "-5" -> -5
      [] OTHER -> NaN

isNaN(x) == x = NaN

parseNumberOrDefault(body, field, defaultVal) ==
    LET parsed == IF Has(body, field) THEN parseFloat(body[field]) ELSE NaN
    IN  IF isNaN(parsed) THEN defaultVal ELSE parsed

parsedPrice(body) == parseNumberOrDefault(body, "price", 0)
parsedStock(body) == parseNumberOrDefault(body, "stock", 0)

parsedSalePrice(body) ==
    IF ~Has(body, "salePrice") \/ body.salePrice = "" \/ body.salePrice = "null"
    THEN Null
    ELSE parseNumberOrDefault(body, "salePrice", Null)

\* !x || !x.trim()
blank(body, field) == falsy(body, field) \/ trim(body[field]) = ""

\* the sku as stored: sku || undefined, trimmed ("" stands for no sku)
storedSku(body) == IF falsy(body, "sku") THEN "" ELSE trim(body.sku)

\* mutant of skuTaken: the handler does not look the SKU up
skuTaken_never(sku) == FALSE

\* Product.findOne({ sku })
skuTaken(sku) == \E p \in products : p.sku # "" /\ p.sku = trim(sku)

\* mutant of salePriceTooHigh: a sale price equal to the price passes
salePriceTooHigh_equalAllowed(body) ==
    parsedSalePrice(body) # Null /\ parsedSalePrice(body) > parsedPrice(body)

\* parsedSalePrice !== null && parsedSalePrice >= parsedPrice
salePriceTooHigh(body) ==
    parsedSalePrice(body) # Null /\ parsedSalePrice(body) >= parsedPrice(body)

\* the server-side validation shared by POST and PUT /api/products:
\* the message of the rejection, or "" when the body passes.
\* own is the sku of the product being updated ("" on creation).
productRejection(body, own, updating) ==
    IF salePriceTooHigh(body)
    THEN "Sale price must be less than the regular price."
    ELSE IF ~falsy(body, "sku") /\ (~updating \/ own # body.sku) /\ skuTaken(body.sku)
    THEN "Product with this SKU already exists."
    ELSE IF isNaN(parsedPrice(body)) \/ parsedPrice(body) <= 0
    THEN "Price must be a positive number."
    ELSE IF isNaN(parsedStock(body)) \/ parsedStock(body) < 0
    THEN "Stock must be a non-negative number."
    ELSE IF blank(body, "name") THEN "Product Name is required."
    ELSE IF blank(body, "description") THEN "Description is required."
    ELSE IF blank(body, "category") THEN "Category is required."
    ELSE ""

\* the fields both handlers write
productFields(id, body) ==
    [ _id |-> id,
      name |-> trim(body.name),
      description |-> trim(body.description),
      category |-> trim(body.category),
      price |-> parsedPrice(body),
      salePrice |-> parsedSalePrice(body),
      stock |-> parsedStock(body),
      sku |-> storedSku(body) ]

\* the schema validators: price, salePrice and stock have min: 0
productValid(doc) ==
    /\ doc.price >= 0
    /\ doc.salePrice = Null \/ doc.salePrice >= 0
    /\ doc.stock >= 0

\* the unique sparse index on sku
skuIndexAllows(doc) ==
    doc.sku = "" \/ ~\E p \in products : p._id # doc._id /\ p.sku = doc.sku

productExists(id) == \E p \in products : p._id = id
productById(id) == CHOOSE p \in products : p._id = id

ProductOut(store, revs, fresh, reply) ==
    [products |-> store, reviews |-> revs, nextProductId |-> fresh, res |-> reply]

\* the save of both handlers, the collection without the document's old version
saveProduct(others, doc, fresh, okCode, okMessage) ==
    IF ~productValid(doc)
    THEN ProductOut(products, reviews, nextProductId, Reply(400, "Validation Error"))
    ELSE IF ~skuIndexAllows(doc)
    THEN ProductOut(products, reviews, nextProductId, Reply(500, "Failed to save product."))
    ELSE ProductOut(others \cup {doc}, reviews, fresh,
                    [status |-> okCode, message |-> okMessage, product |-> doc])

\* POST /api/products
createProductHandler(body) ==
    IF productRejection(body, "", FALSE) # ""
    THEN ProductOut(products, reviews, nextProductId,
                    Reply(400, productRejection(body, "", FALSE)))
    ELSE saveProduct(products, productFields(nextProductId, body), nextProductId + 1,
                     201, "Product added successfully!")

\* PUT /api/products/:id
updateProductHandler(id, body) ==
    IF ~isValidObjectId(id)
    THEN ProductOut(products, reviews, nextProductId, Reply(400, "Invalid product ID format"))
    ELSE IF ~productExists(id)
    THEN ProductOut(products, reviews, nextProductId, Reply(404, "Product not found"))
    ELSE IF productRejection(body, productById(id).sku, TRUE) # ""
    THEN ProductOut(products, reviews, nextProductId,
                    Reply(400, productRejection(body, productById(id).sku, TRUE)))
    ELSE saveProduct(products \ {productById(id)}, productFields(id, body), nextProductId,
                     200, "Product updated successfully!")

\* DELETE /api/products/:id, with its Review.deleteMany({ productId: id })
deleteProductHandler(id) ==
    IF ~isValidObjectId(id)
    THEN ProductOut(products, reviews, nextProductId, Reply(400, "Invalid product ID format"))
    ELSE IF ~productExists(id)
    THEN ProductOut(products, reviews, nextProductId, Reply(404, "Product not found"))
    ELSE ProductOut(products \ {productById(id)},
                    {r \in reviews : r.productId # id}, nextProductId,
                    Reply(200, "Product deleted successfully!"))

\* mutant of ordersAfterProductUpdate: the line items that hold the
\* product take its new name and price
ordersAfterProductUpdate_resynced(doc) ==
    [i \in DOMAIN orders |->
        [orders[i] EXCEPT !.products =
            [k \in DOMAIN orders[i].products |->
                IF orders[i].products[k].productId = doc._id
                THEN [orders[i].products[k] EXCEPT !.name = doc.name, !.price = doc.price]
                ELSE orders[i].products[k]]]]

\* the Order collection after PUT /api/products/:id saved doc: the handler
\* has no operation on it
ordersAfterProductUpdate(doc) == orders

\* the Order collection after DELETE /api/products/:id: the handler deletes
\* the product and its reviews and has no operation on orders
ordersAfterProductDelete(id) == orders

(***************************************************************************)
(* server.js: the user handlers.  A user document keeps the fields         *)
(* POST /api/signup passes to the User model, but for the password.        *)
(***************************************************************************)
\* User.findOne({ $or: [{ username }, { mobileNumber }] })
userExists(body) ==
    \E u \in users : u.username = body.username \/ u.mobileNumber = body.mobileNumber

UserOut(store, fresh, reply) == [users |-> store, nextUserId |-> fresh, res |-> reply]

\* new User({ username, password, age, mobileNumber })
newUser(body) ==
    [ _id |-> nextUserId, username |-> body.username, age |-> body.age,
      mobileNumber |-> body.mobileNumber ]

\* POST /api/signup
signupHandler(body) ==
    IF \/ falsy(body, "username") \/ falsy(body, "password")
       \/ ~Has(body, "age") \/ body.age = 0
       \/ falsy(body, "mobileNumber")
    THEN UserOut(users, nextUserId, Reply(400, "Please enter all fields"))
    ELSE IF userExists(body)
    THEN UserOut(users, nextUserId,
                 Reply(400, "User with this username or mobile number already exists"))
    ELSE UserOut(users \cup {newUser(body)}, nextUserId + 1,
                 [status |-> 201, message |-> "User registered successfully!",
                  user |-> newUser(body)])

\* DELETE /api/users/:id
deleteUserHandler(id) ==
    IF ~isValidObjectId(id)
    THEN UserOut(users, nextUserId, Reply(400, "Invalid user ID format"))
    ELSE IF ~\E u \in users : u._id = id
    THEN UserOut(users, nextUserId, Reply(404, "User not to found"))
    ELSE UserOut({u \in users : u._id # id}, nextUserId,
                 Reply(200, "User deleted successfully!"))

\* mutant of ordersAfterUserDelete: the user's orders are deleted with the
\* user, as a product's reviews are with the product
ordersAfterUserDelete_cascade(id) == SelectSeq(orders, LAMBDA o : o.userId # id)

\* the Order collection after DELETE /api/users/:id: the handler has no
\* operation on it
ordersAfterUserDelete(id) == orders

(***************************************************************************)
(* The state machine.  A handler runs to completion before the next        *)
(* starts; req and res record the request it served and its response.      *)
(* (The order routes are also given step by step further down.)            *)
(***************************************************************************)
\* the three routes that load an order, change it in memory and save it
OrderRoutes == {"adminUpdate", "confirmReceived", "cancel"}

\* no request of the route is between its findById and its save
Idle == [stage |-> "idle"]

Init ==
    /\ orders = <<>>
    /\ reviews = {}
    /\ products = {}
    /\ nextProductId = 1
    /\ users = {}
    /\ nextUserId = 1
    /\ now = 0
    /\ req = [op |-> "none"]
    /\ res = Reply(0, "")
    /\ calls = [op \in OrderRoutes |-> Idle]

\* the readings the clock can give from now on
Clock == now..MaxTime

PlaceOrder(body, t1, t2, cap) ==
    LET out == placeOrderHandler(body, t1, t2) IN
    /\ t1 <= t2
    /\ out.res.status = 201 => Len(orders) < cap
    /\ orders' = out.orders
    /\ now' = out.now
    /\ req' = [op |-> "placeOrder", body |-> body]
    /\ res' = out.res
    /\ UNCHANGED <<reviews, products, nextProductId, users, nextUserId, calls>>

AdminUpdate(id, body, t, up) ==
    LET out == adminUpdateHandler(id, body, t, up) IN
    /\ orders' = out.orders
    /\ now' = out.now
    /\ req' = [op |-> "adminUpdate", id |-> id]
    /\ res' = out.res
    /\ UNCHANGED <<reviews, products, nextProductId, users, nextUserId, calls>>

\* PUT /api/orders/:id, the request recorded with its body
AdminUpdateLogged(id, body, t) ==
    LET out == adminUpdateHandler(id, body, t, TRUE) IN
    /\ orders' = out.orders
    /\ now' = out.now
    /\ req' = [op |-> "adminUpdate", id |-> id, body |-> body]
    /\ res' = out.res
    /\ UNCHANGED <<reviews, products, nextProductId, users, nextUserId, calls>>

ConfirmReceived(id, t1, t2, up) ==
    LET out == confirmReceivedHandler(id, t1, t2, up) IN
    /\ t1 <= t2
    /\ orders' = out.orders
    /\ now' = out.now
    /\ req' = [op |-> "confirmReceived", id |-> id]
    /\ res' = out.res
    /\ UNCHANGED <<reviews, products, nextProductId, users, nextUserId, calls>>

Cancel(id, t1, t2, up) ==
    LET out == cancelHandler(id, t1, t2, up) IN
    /\ t1 <= t2
    /\ orders' = out.orders
    /\ now' = out.now
    /\ req' = [op |-> "cancel", id |-> id]
    /\ res' = out.res
    /\ UNCHANGED <<reviews, products, nextProductId, users, nextUserId, calls>>

SubmitReview(body) ==
    LET out == submitReviewHandler(body) IN
    /\ reviews' = out.reviews
    /\ req' = [op |-> "submitReview", body |-> body]
    /\ res' = out.res
    /\ UNCHANGED <<orders, products, nextProductId, users, nextUserId, now, calls>>

CreateProduct(body, cap) ==
    LET out == createProductHandler(body) IN
    /\ out.res.status = 201 => nextProductId <= cap
    /\ products' = out.products
    /\ reviews' = out.reviews
    /\ nextProductId' = out.nextProductId
    /\ req' = [op |-> "createProduct", body |-> body]
    /\ res' = out.res
    /\ UNCHANGED <<orders, users, nextUserId, now, calls>>

UpdateProduct(id, body) ==
    LET out == updateProductHandler(id, body) IN
    /\ products' = out.products
    /\ reviews' = out.reviews
    /\ nextProductId' = out.nextProductId
    /\ orders' = IF out.res.status = 200
                 THEN ordersAfterProductUpdate(out.res.product) ELSE orders
    /\ req' = [op |-> "updateProduct", id |-> id, body |-> body]
    /\ res' = out.res
    /\ UNCHANGED <<users, nextUserId, now, calls>>

DeleteProduct(id) ==
    LET out == deleteProductHandler(id) IN
    /\ products' = out.products
    /\ reviews' = out.reviews
    /\ nextProductId' = out.nextProductId
    /\ orders' = IF out.res.status = 200 THEN ordersAfterProductDelete(id) ELSE orders
    /\ req' = [op |-> "deleteProduct", id |-> id]
    /\ res' = out.res
    /\ UNCHANGED <<users, nextUserId, now, calls>>

Signup(body, cap) ==
    LET out == signupHandler(body) IN
    /\ out.res.status = 201 => nextUserId <= cap
    /\ users' = out.users
    /\ nextUserId' = out.nextUserId
    /\ req' = [op |-> "signup", body |-> body]
    /\ res' = out.res
    /\ UNCHANGED <<orders, reviews, products, nextProductId, now, calls>>

DeleteUser(id) ==
    LET out == deleteUserHandler(id) IN
    /\ users' = out.users
    /\ nextUserId' = out.nextUserId
    /\ orders' = IF out.res.status = 200 THEN ordersAfterUserDelete(id) ELSE orders
    /\ req' = [op |-> "deleteUser", id |-> id]
    /\ res' = out.res
    /\ UNCHANGED <<reviews, products, nextProductId, now, calls>>

(***************************************************************************)
(* The order routes step by step.  Each handler awaits twice: findById and *)
(* save.  Between the two the event loop serves other requests, so a       *)
(* request is two steps: the load (findById, the guards and the            *)
(* assignments to the loaded document, up to the call of save) and the     *)
(* save (validation, pre('save'), the write, the response).  A refused     *)
(* request answers in its load step.  save() of a loaded document writes   *)
(* the paths that were modified since it was loaded, by _id.               *)
(***************************************************************************)
\* order.save() of a document loaded earlier: an update by _id that sets
\* the modified paths and leaves the other paths of the stored document
saveModified(loaded, doc) ==
    [orders EXCEPT ![doc._id] =
        [f \in DOMAIN doc |-> IF doc[f] # loaded[f] THEN doc[f] ELSE orders[doc._id][f]]]

\* return res.status(...).json(...) before save() is called
Answer(op, id, reply) ==
    /\ calls' = [calls EXCEPT ![op] = [stage |-> "done", id |-> id, res |-> reply]]
    /\ req' = [op |-> op, id |-> id]
    /\ res' = reply

\* the handler reaches await order.save() with the document it loaded and
\* the document as assigned; no response yet
Await(op, id, doc) ==
    /\ calls' = [calls EXCEPT ![op] =
                    [stage |-> "loaded", id |-> id, loaded |-> orders[id], doc |-> doc]]
    /\ UNCHANGED <<req, res>>

\* save() resolved and the handler responds
Respond(op, reply) ==
    /\ calls' = [calls EXCEPT ![op] =
                    [stage |-> "done", id |-> calls[op].id, loaded |-> calls[op].loaded,
                     res |-> reply]]
    /\ req' = [op |-> op, id |-> calls[op].id]
    /\ res' = reply

\* PUT /api/orders/:id up to await order.save()
AdminUpdateLoad(id, body, t) ==
    /\ calls["adminUpdate"].stage # "loaded"
    /\ IF ~isValidObjectId(id)
       THEN Answer("adminUpdate", id, Reply(400, "Invalid Order ID format."))
       ELSE IF ~orderExists(id)
       THEN Answer("adminUpdate", id, orderNotFound)
       ELSE IF orders[id].orderStatus \in adminUpdateLocked
       THEN Answer("adminUpdate", id,
                   Reply(400, adminUpdateLockedMessage(orders[id].orderStatus)))
       ELSE Await("adminUpdate", id,
                  [applyAdminFields(orders[id], body) EXCEPT !.updatedAt = t])
    /\ now' = t
    /\ UNCHANGED <<orders, reviews, products, nextProductId, users, nextUserId>>

\* PUT /api/orders/:id from await order.save() on
AdminUpdateSave(t) ==
    LET call == calls["adminUpdate"]
        saved == orderPreSave(call.doc, t)
    IN /\ call.stage = "loaded"
       /\ IF ~(orderStatusValid(call.doc) /\ deliveryOptionValid(call.doc))
          THEN /\ Respond("adminUpdate", Reply(400, "Validation Error"))
               /\ orders' = orders
          ELSE /\ Respond("adminUpdate",
                          ReplyOrder(200, "Order updated successfully!", saved))
               /\ orders' = saveModified(call.loaded, saved)
       /\ now' = t
       /\ UNCHANGED <<reviews, products, nextProductId, users, nextUserId>>

\* PUT /api/orders/:id/confirm-received up to await order.save()
ConfirmReceivedLoad(id, t) ==
    /\ calls["confirmReceived"].stage # "loaded"
    /\ IF ~isValidObjectId(id)
       THEN Answer("confirmReceived", id, Reply(400, "Invalid Order ID format."))
       ELSE IF ~orderExists(id)
       THEN Answer("confirmReceived", id, orderNotFound)
       ELSE IF orders[id].orderStatus \in confirmLocked
       THEN Answer("confirmReceived", id,
                   Reply(400, "Order cannot be confirmed (already confirmed or cancelled)."))
       ELSE Await("confirmReceived", id, markReceived(orders[id], t))
    /\ now' = t
    /\ UNCHANGED <<orders, reviews, products, nextProductId, users, nextUserId>>

\* PUT /api/orders/:id/confirm-received from await order.save() on
ConfirmReceivedSave(t) ==
    LET call == calls["confirmReceived"]
        saved == orderPreSave(call.doc, t)
    IN /\ call.stage = "loaded"
       /\ Respond("confirmReceived",
                  ReplyOrder(200, "Order marked as received successfully!", saved))
       /\ orders' = saveModified(call.loaded, saved)
       /\ now' = t
       /\ UNCHANGED <<reviews, products, nextProductId, users, nextUserId>>

\* PUT /api/orders/:id/cancel up to await order.save()
CancelLoad(id, t) ==
    /\ calls["cancel"].stage # "loaded"
    /\ IF ~isValidObjectId(id)
       THEN Answer("cancel", id, Reply(400, "Invalid Order ID format"))
       ELSE IF ~orderExists(id)
       THEN Answer("cancel", id, orderNotFound)
       ELSE IF cancelRejection(orders[id]) # ""
       THEN Answer("cancel", id, Reply(400, cancelRejection(orders[id])))
       ELSE Await("cancel", id, markCancelled(orders[id], t))
    /\ now' = t
    /\ UNCHANGED <<orders, reviews, products, nextProductId, users, nextUserId>>

\* PUT /api/orders/:id/cancel from await order.save() on
CancelSave(t) ==
    LET call == calls["cancel"]
        saved == orderPreSave(call.doc, t)
    IN /\ call.stage = "loaded"
       /\ Respond("cancel", ReplyOrder(200, "Order cancelled successfully!", saved))
       /\ orders' = saveModified(call.loaded, saved)
       /\ now' = t
       /\ UNCHANGED <<reviews, products, nextProductId, users, nextUserId>>

(***************************************************************************)
(* Requests.                                                               *)
(***************************************************************************)
\* the order ids a request can name: malformed, stored, and never stored
OrderIdInputs == 0..(MaxOrders + 1)

Address ==
    [ personName |-> " Asha ", mobileNumber |-> "9876543210", address |-> "12 Hill Road",
      pincode |-> "560001", state |-> "Karnataka" ]

Item(productId) == [productId |-> productId, name |-> "Mug", price |-> 250, quantity |-> 2]

OrderBody(userId, items) ==
    [ userId |-> userId, products |-> items, shippingAddress |-> Address,
      paymentMethod |-> "Cash on Delivery", totalPrice |-> 500 ]

\* properties of the order that a caller may send and the handler does not read
Forged ==
    [ orderStatus |-> Shipped, deliveryOption |-> Stage5, adminMessage |-> "late",
      deliveredAt |-> 1, cancelledAt |-> 1 ]

\* the bodies of POST /api/orders in the lifecycle specification
PlaceBodies ==
    { OrderBody(1, <<Item(1)>>),
      OrderBody(1, <<Item(1)>>) @@ Forged,
      EmptyBody,
      [OrderBody(1, <<Item(1)>>) EXCEPT !.totalPrice = 0],
      [OrderBody(1, <<Item(1)>>) EXCEPT !.paymentMethod = "Card"] }

StatusPart ==
    {EmptyBody} \cup {[orderStatus |-> s] : s \in orderStatusEnum \cup {"", "Refunded"}}
OptionPart ==
    {EmptyBody} \cup {[deliveryOption |-> d] : d \in deliveryOptionEnum \cup {"Option 6"}}
MessagePart ==
    {EmptyBody} \cup {[adminMessage |-> m] : m \in {"", "late", " late "}}

\* the bodies of PUT /api/orders/:id: every single field, and fields together
AdminBodies ==
    StatusPart \cup OptionPart \cup MessagePart \cup
    { [orderStatus |-> Shipped, deliveryOption |-> Stage3, adminMessage |-> "late"],
      [orderStatus |-> Pending, deliveryOption |-> Stage5],
      [orderStatus |-> "Refunded", deliveryOption |-> Stage2, adminMessage |-> "late"],
      [orderStatus |-> Delivered, deliveryOption |-> "Option 6"],
      [orderStatus |-> Cancelled, adminMessage |-> " late "],
      [orderStatus |-> DeliveredConfirmed, deliveryOption |-> Stage4] }

(***************************************************************************)
(* The order lifecycle: placement, admin update, confirmation of receipt   *)
(* and cancellation, the clock advancing.                                  *)
(***************************************************************************)
Next ==
    \/ \E body \in PlaceBodies, t1 \in Clock, t2 \in Clock :
           PlaceOrder(body, t1, t2, MaxOrders)
    \/ \E id \in OrderIdInputs, body \in AdminBodies, t \in Clock : AdminUpdate(id, body, t, TRUE)
    \/ \E id \in OrderIdInputs, t1 \in Clock, t2 \in Clock : ConfirmReceived(id, t1, t2, TRUE)
    \/ \E id \in OrderIdInputs, t1 \in Clock, t2 \in Clock : Cancel(id, t1, t2, TRUE)

Spec == Init /\ [][Next]_vars

(***************************************************************************)
(* The shop: two buyers order two products, the admin moves the orders     *)
(* through their statuses, buyers confirm, cancel and review, and the      *)
(* catalog changes.  All requests arrive within one reading of the clock.  *)
(***************************************************************************)
ShopOrderIdInputs == 1..MaxShopOrders
ShopProductIdInputs == 1..MaxShopProducts

ShopPlaceBodies ==
    { OrderBody(1, <<Item(1)>>), OrderBody(2, <<Item(1)>>),
      OrderBody(1, <<Item(2), Item(1)>>), EmptyBody }

ShopAdminBodies ==
    {[orderStatus |-> s] : s \in {Pending, Shipped, Delivered, Cancelled, DeliveredConfirmed}}

ReviewBodies ==
    {[productId |-> p, userId |-> u, rating |-> 4] : p \in {1, 2}, u \in {1, 2}}
    \cup {[productId |-> 1, userId |-> 1, rating |-> 6]}

ProductBody(price, salePrice) ==
    [ name |-> "Mug", description |-> "Stoneware mug", category |-> "Kitchen",
      price |-> price, salePrice |-> salePrice, stock |-> "5" ]

ShopCreateBodies == {ProductBody("10", ""), ProductBody("0", "")}
ShopUpdateBodies == {ProductBody("10", "8")}

NextShop ==
    \/ \E body \in ShopPlaceBodies : PlaceOrder(body, now, now, MaxShopOrders)
    \/ \E id \in ShopOrderIdInputs, body \in ShopAdminBodies : AdminUpdate(id, body, now, TRUE)
    \/ \E id \in ShopOrderIdInputs : ConfirmReceived(id, now, now, TRUE)
    \/ \E id \in ShopOrderIdInputs : Cancel(id, now, now, TRUE)
    \/ \E body \in ReviewBodies : SubmitReview(body)
    \/ \E body \in ShopCreateBodies : CreateProduct(body, MaxShopProducts)
    \/ \E id \in ShopProductIdInputs, body \in ShopUpdateBodies : UpdateProduct(id, body)
    \/ \E id \in ShopProductIdInputs : DeleteProduct(id)

SpecShop == Init /\ [][NextShop]_vars

(***************************************************************************)
(* The order desk: POST /api/orders with well-formed and defective         *)
(* requests, within one reading of the clock.                              *)
(***************************************************************************)
\* record r without the property f
Without(r, f) == [x \in DOMAIN r \ {f} |-> r[x]]

GoodBody == OrderBody(1, <<Item(1)>>)

AddressFields == {"personName", "mobileNumber", "address", "pincode", "state"}

\* line items with one defect each
BadItems ==
    { [Item(1) EXCEPT !.productId = MalformedId],
      Without(Item(1), "productId"),
      Without(Item(1), "name"),
      [Item(1) EXCEPT !.name = ""],
      Without(Item(1), "price"),
      Without(Item(1), "quantity"),
      [Item(1) EXCEPT !.quantity = 0],
      [Item(1) EXCEPT !.quantity = -1] }

\* requests with one defect each
BadPlaceBodies ==
    { Without(GoodBody, "userId"),
      [GoodBody EXCEPT !.userId = MalformedId],
      Without(GoodBody, "products"),
      [GoodBody EXCEPT !.products = <<>>],
      Without(GoodBody, "shippingAddress"),
      Without(GoodBody, "paymentMethod"),
      [GoodBody EXCEPT !.paymentMethod = ""],
      [GoodBody EXCEPT !.paymentMethod = "Card"],
      Without(GoodBody, "totalPrice"),
      [GoodBody EXCEPT !.totalPrice = 0],
      [GoodBody EXCEPT !.totalPrice = -5],
      [GoodBody EXCEPT !.shippingAddress.mobileNumber = "98765"],
      [GoodBody EXCEPT !.shippingAddress.pincode = "5600"] }
    \cup {[GoodBody EXCEPT !.products = <<bad>>] : bad \in BadItems}
    \cup {[GoodBody EXCEPT !.products = <<Item(2), bad>>] : bad \in BadItems}
    \cup {[GoodBody EXCEPT !.shippingAddress = Without(Address, f)] : f \in AddressFields}
    \cup {[GoodBody EXCEPT !.shippingAddress[f] = ""] : f \in AddressFields}
    \cup {[GoodBody EXCEPT !.shippingAddress[f] = "  "] : f \in AddressFields}

GoodPlaceBodies ==
    { GoodBody,
      [GoodBody EXCEPT !.paymentMethod = "Google Pay"],
      OrderBody(2, <<Item(2), Item(1)>>) @@ Forged }

NextDesk ==
    \E body \in GoodPlaceBodies \cup BadPlaceBodies :
        PlaceOrder(body, now, now, MaxDeskOrders)

SpecDesk == Init /\ [][NextDesk]_vars

(***************************************************************************)
(* The back office: the admin updates a placed order with every request    *)
(* of AdminBodies, each recorded in full, within one reading of the clock. *)
(***************************************************************************)
OfficeOrderIdInputs == 1..MaxOfficeOrders

NextOffice ==
    \/ \E body \in {GoodBody} : PlaceOrder(body, now, now, MaxOfficeOrders)
    \/ \E id \in OfficeOrderIdInputs, body \in AdminBodies : AdminUpdateLogged(id, body, now)

SpecOffice == Init /\ [][NextOffice]_vars

(***************************************************************************)
(* The ledger: the order lifecycle of one order with the clock advancing   *)
(* and the body of every admin update on record.                           *)
(***************************************************************************)
StampOrderIdInputs == 1..MaxStampOrders

StampAdminBodies ==
    { EmptyBody, [orderStatus |-> Shipped], [orderStatus |-> "Refunded"],
      [deliveryOption |-> Stage2] }

NextStamp ==
    \/ \E body \in {GoodBody}, t1 \in Clock, t2 \in Clock :
           PlaceOrder(body, t1, t2, MaxStampOrders)
    \/ \E id \in StampOrderIdInputs, body \in StampAdminBodies, t \in Clock :
           AdminUpdateLogged(id, body, t)
    \/ \E id \in StampOrderIdInputs, t1 \in Clock, t2 \in Clock :
           ConfirmReceived(id, t1, t2, TRUE)
    \/ \E id \in StampOrderIdInputs, t1 \in Clock, t2 \in Clock : Cancel(id, t1, t2, TRUE)

SpecStamp == Init /\ [][NextStamp]_vars

(***************************************************************************)
(* The pair: two orders side by side, every lifecycle request recorded     *)
(* with its body, within one reading of the clock.                         *)
(***************************************************************************)
PairOrderIdInputs == 1..(MaxPairOrders + 1)

PairPlaceBodies == { GoodBody, OrderBody(2, <<Item(1)>>) }

PairAdminBodies ==
    { [orderStatus |-> Shipped], [orderStatus |-> "Refunded"],
      [deliveryOption |-> Stage3, adminMessage |-> "late"] }

NextPair ==
    \/ \E body \in PairPlaceBodies : PlaceOrder(body, now, now, MaxPairOrders)
    \/ \E id \in PairOrderIdInputs, body \in PairAdminBodies : AdminUpdateLogged(id, body, now)
    \/ \E id \in PairOrderIdInputs : ConfirmReceived(id, now, now, TRUE)
    \/ \E id \in PairOrderIdInputs : Cancel(id, now, now, TRUE)

SpecPair == Init /\ [][NextPair]_vars

(***************************************************************************)
(* The validators: admin updates with values inside and outside the enums, *)
(* empty strings among them, every body on record, within one reading of   *)
(* the clock.                                                              *)
(***************************************************************************)
EnumOrderIdInputs == 1..MaxEnumOrders

EnumAdminBodies ==
    { [orderStatus |-> Shipped], [orderStatus |-> "Refunded"], [orderStatus |-> ""],
      [deliveryOption |-> "Option 6"], [deliveryOption |-> ""],
      [orderStatus |-> "Refunded", deliveryOption |-> Stage2, adminMessage |-> "late"],
      [orderStatus |-> Delivered, deliveryOption |-> "Option 6"],
      [orderStatus |-> "", deliveryOption |-> "", adminMessage |-> "late"],
      [orderStatus |-> DeliveredConfirmed] }

NextEnum ==
    \/ \E body \in {GoodBody} : PlaceOrder(body, now, now, MaxEnumOrders)
    \/ \E id \in EnumOrderIdInputs, body \in EnumAdminBodies : AdminUpdateLogged(id, body, now)

SpecEnum == Init /\ [][NextEnum]_vars

(***************************************************************************)
(* The outage: the order lifecycle with a store that may be down when a    *)
(* handler saves, within one reading of the clock.                         *)
(***************************************************************************)
OutageOrderIdInputs == 1..(MaxOutageOrders + 1)

OutageAdminBodies ==
    { [orderStatus |-> Shipped], [orderStatus |-> "Refunded"],
      [deliveryOption |-> Stage3], [adminMessage |-> "late"],
      [orderStatus |-> Delivered, deliveryOption |-> Stage5, adminMessage |-> " late "] }

NextOutage ==
    \/ \E body \in {GoodBody} : PlaceOrder(body, now, now, MaxOutageOrders)
    \/ \E id \in OutageOrderIdInputs, body \in OutageAdminBodies, up \in BOOLEAN :
           AdminUpdate(id, body, now, up)
    \/ \E id \in OutageOrderIdInputs, up \in BOOLEAN : ConfirmReceived(id, now, now, up)
    \/ \E id \in OutageOrderIdInputs, up \in BOOLEAN : Cancel(id, now, now, up)

SpecOutage == Init /\ [][NextOutage]_vars

(***************************************************************************)
(* The race: the three order routes step by step on one order, so that a   *)
(* request can load the order before another request saves it; within one  *)
(* reading of the clock.                                                   *)
(***************************************************************************)
RaceOrderIdInputs == 1..(MaxRaceOrders + 1)

RaceAdminBodies == { [orderStatus |-> Shipped], [adminMessage |-> "late"] }

NextRace ==
    \/ \E body \in {GoodBody} : PlaceOrder(body, now, now, MaxRaceOrders)
    \/ \E id \in RaceOrderIdInputs, body \in RaceAdminBodies : AdminUpdateLoad(id, body, now)
    \/ AdminUpdateSave(now)
    \/ \E id \in RaceOrderIdInputs : ConfirmReceivedLoad(id, now)
    \/ ConfirmReceivedSave(now)
    \/ \E id \in RaceOrderIdInputs : CancelLoad(id, now)
    \/ CancelSave(now)

SpecRace == Init /\ [][NextRace]_vars

(***************************************************************************)
(* The catalog: products with and without a SKU are created, updated and   *)
(* deleted, with sound and unsound prices, within one reading of the       *)
(* clock.                                                                  *)
(***************************************************************************)
CatalogProductIdInputs == 1..(MaxCatalogProducts + 1)

SkuBody(price, salePrice, sku) == [sku |-> sku] @@ ProductBody(price, salePrice)

\* the bodies of POST /api/products and PUT /api/products/:id
CatalogBodies ==
    { SkuBody("10", "", "A1"), SkuBody("5", "", "A1"), SkuBody("10", "8", "B2"),
      ProductBody("10", ""), ProductBody("10", "10"), ProductBody("5", "8"),
      ProductBody("0", ""), ProductBody("-5", ""), ProductBody("abc", ""),
      ProductBody("10", "-5"), SkuBody("0", "", "B2") }

NextCatalog ==
    \/ \E body \in CatalogBodies : CreateProduct(body, MaxCatalogProducts)
    \/ \E id \in CatalogProductIdInputs, body \in CatalogBodies : UpdateProduct(id, body)
    \/ \E id \in CatalogProductIdInputs : DeleteProduct(id)

SpecCatalog == Init /\ [][NextCatalog]_vars

(***************************************************************************)
(* The whole system: every route that writes, with few requests each,      *)
(* within one reading of the clock.                                        *)
(***************************************************************************)
SystemOrderIdInputs == 1..MaxSystemOrders
SystemProductIdInputs == 1..MaxSystemProducts
UserIdInputs == 1..(MaxUsers + 1)

SystemPlaceBodies == {OrderBody(1, <<Item(1)>>), OrderBody(2, <<Item(1)>>)}

SystemAdminBodies == {[orderStatus |-> Delivered]}

SignupBody ==
    [username |-> "asha", password |-> "s3cret", age |-> 30, mobileNumber |-> "9876543210"]

SignupBodies == {SignupBody, Without(SignupBody, "password")}

SystemCreateBodies == {ProductBody("10", "")}

\* the product renamed and repriced
SystemUpdateBodies == {[ProductBody("8", "") EXCEPT !.name = "Cup"]}

SystemReviewBodies == {[productId |-> 1, userId |-> 1, rating |-> 4]}

NextSystem ==
    \/ \E body \in SystemPlaceBodies : PlaceOrder(body, now, now, MaxSystemOrders)
    \/ \E id \in SystemOrderIdInputs, body \in SystemAdminBodies :
           AdminUpdate(id, body, now, TRUE)
    \/ \E id \in SystemOrderIdInputs : ConfirmReceived(id, now, now, TRUE)
    \/ \E id \in SystemOrderIdInputs : Cancel(id, now, now, TRUE)
    \/ \E body \in SystemReviewBodies : SubmitReview(body)
    \/ \E body \in SystemCreateBodies : CreateProduct(body, MaxSystemProducts)
    \/ \E id \in SystemProductIdInputs, body \in SystemUpdateBodies : UpdateProduct(id, body)
    \/ \E id \in SystemProductIdInputs : DeleteProduct(id)
    \/ \E body \in SignupBodies : Signup(body, MaxUsers)
    \/ \E id \in UserIdInputs : DeleteUser(id)

SpecSystem == Init /\ [][NextSystem]_vars

(***************************************************************************)
(* Properties.  A step is read off req' and res': every handler records    *)
(* the request it served and the response it sent.                         *)
(***************************************************************************)
\* the step serves request op on a stored order; Target is that order's id
OnOrder(op) ==
    /\ req'.op = op
    /\ isValidObjectId(req'.id)
    /\ req'.id \in DOMAIN orders
Target == req'.id

\* order b is order a but for the listed fields
SameBut(a, b, fields) == \A f \in DOMAIN a \ fields : b[f] = a[f]

\* C1: for every order, deliveredAt is set exactly when the status is
\* 'Delivered & Confirmed' and cancelledAt exactly when it is 'Cancelled'.
C1_TimestampsMatchStatus ==
    \A i \in DOMAIN orders :
        /\ orders[i].deliveredAt # Null <=> orders[i].orderStatus = DeliveredConfirmed
        /\ orders[i].cancelledAt # Null <=> orders[i].orderStatus = Cancelled

\* C2: once an order is 'Delivered & Confirmed' or 'Cancelled', no step
\* changes any of its fields, and an admin update, confirm-received or cancel
\* addressed to it is answered 400.
C2_TerminalAbsorbing ==
    [][\A i \in DOMAIN orders :
          orders[i].orderStatus \in {DeliveredConfirmed, Cancelled} =>
              /\ orders'[i] = orders[i]
              /\ (req'.op \in {"adminUpdate", "confirmReceived", "cancel"} /\ req'.id = i)
                     => res'.status = 400]_vars

C2_Witness ==
    \E i \in DOMAIN orders :
        /\ orders[i].orderStatus = Cancelled
        /\ orders[i].cancelledAt # Null
        /\ req = [op |-> "adminUpdate", id |-> i]
        /\ res = Reply(400, "Cannot update a cancelled order.")

\* C3: a cancel of a stored order is answered 200 exactly when its status is
\* none of 'Delivered & Confirmed', 'Cancelled', 'Delivered', 'Shipped' and
\* its delivery option is option 1 or option 2; otherwise the order
\* collection is unchanged.
C3_CancelSucceedsIff ==
    [][OnOrder("cancel") =>
          /\ res'.status = 200 <=>
                 /\ orders[Target].orderStatus \notin
                        {DeliveredConfirmed, Cancelled, Delivered, Shipped}
                 /\ orders[Target].deliveryOption \in {Stage1, Stage2}
          /\ res'.status # 200 => orders' = orders]_vars

C3_Witness ==
    /\ req.op = "cancel"
    /\ res.status = 200
    /\ res.order.deliveryOption = Stage2
    /\ orders[req.id].orderStatus = Cancelled

\* C4: confirm-received of a stored order that is Pending, Confirmed,
\* Processing, Shipped or Delivered is answered 200 whatever the delivery
\* option; the order becomes 'Delivered & Confirmed', deliveredAt is a
\* reading of the clock taken by the step, updatedAt is the step's last
\* reading, and no other field changes.
C4_ConfirmReceivedEffect ==
    [][(/\ OnOrder("confirmReceived")
        /\ orders[Target].orderStatus \in
               {Pending, Confirmed, Processing, Shipped, Delivered}) =>
          /\ res'.status = 200
          /\ orders'[Target].orderStatus = DeliveredConfirmed
          /\ orders'[Target].deliveredAt \in now..now'
          /\ orders'[Target].updatedAt = now'
          /\ SameBut(orders[Target], orders'[Target],
                     {"orderStatus", "deliveredAt", "updatedAt"})]_vars

C4_Witness ==
    /\ req.op = "confirmReceived"
    /\ res.status = 200
    /\ orders[req.id].deliveryOption = Stage5
    /\ orders[req.id].adminMessage = "late"
    /\ orders[req.id].deliveredAt > 0

\* C5: a cancel answered 200 leaves the order Cancelled, cancelledAt a
\* reading of the clock taken by the step, updatedAt the step's last
\* reading, deliveredAt null, and every other field as it was.
C5_CancelEffect ==
    [][(OnOrder("cancel") /\ res'.status = 200) =>
          /\ orders'[Target].orderStatus = Cancelled
          /\ orders'[Target].cancelledAt \in now..now'
          /\ orders'[Target].updatedAt = now'
          /\ orders'[Target].deliveredAt = Null
          /\ SameBut(orders[Target], orders'[Target],
                     {"orderStatus", "cancelledAt", "updatedAt"})]_vars

C5_Witness ==
    /\ req.op = "cancel"
    /\ res.status = 200
    /\ orders[req.id].adminMessage = "late"
    /\ orders[req.id].orderStatus = Cancelled
    /\ orders[req.id].cancelledAt > orders[req.id].createdAt

\* C6: a cancel that directly follows a cancel of the same order is never
\* answered 200, and when the earlier one was answered 200 it is refused
\* with the status rejection.
C6_AtMostOneCancel ==
    [][(req.op = "cancel" /\ OnOrder("cancel") /\ req'.id = req.id) =>
          /\ res'.status # 200
          /\ res.status = 200 => res' = Reply(400, CancelStageMessage)]_vars

C6_Witness ==
    /\ req.op = "cancel"
    /\ res = Reply(400, CancelStageMessage)
    /\ req.id \in DOMAIN orders
    /\ orders[req.id].orderStatus = Cancelled
    /\ orders[req.id].cancelledAt # Null

\* C7: a cancel of a stored order whose status is 'Delivered & Confirmed',
\* 'Cancelled', 'Delivered' or 'Shipped' is refused with the status
\* rejection whatever the delivery option; one whose status is Pending,
\* Confirmed or Processing and whose delivery option is option 3, 4 or 5 is
\* refused with the window rejection; the two rejections differ and neither
\* changes the order collection.
C7_CancelRejections ==
    [][OnOrder("cancel") =>
          /\ orders[Target].orderStatus \in
                 {DeliveredConfirmed, Cancelled, Delivered, Shipped} =>
                 res' = Reply(400, CancelStageMessage) /\ orders' = orders
          /\ (/\ orders[Target].orderStatus \in {Pending, Confirmed, Processing}
              /\ orders[Target].deliveryOption \in {Stage3, Stage4, Stage5}) =>
                 res' = Reply(400, CancelWindowMessage) /\ orders' = orders
          /\ CancelStageMessage # CancelWindowMessage]_vars

C7_Witness ==
    /\ req.op = "cancel"
    /\ res = Reply(400, CancelStageMessage)
    /\ req.id \in DOMAIN orders
    /\ orders[req.id].orderStatus = Shipped
    /\ orders[req.id].deliveryOption = Stage4

\* C10: an order placement answered 201 appends one order that is Pending,
\* at option 1, with deliveredAt and cancelledAt null and an empty admin
\* message, whatever the request carries; a cancel of that order as the next
\* request is answered 200.
C10_PlacedOrderInitial ==
    [][/\ (req'.op = "placeOrder" /\ res'.status = 201) =>
              /\ Len(orders') = Len(orders) + 1
              /\ res'.order = orders'[Len(orders')]
              /\ orders'[Len(orders')].orderStatus = Pending
              /\ orders'[Len(orders')].deliveryOption = Stage1
              /\ orders'[Len(orders')].deliveredAt = Null
              /\ orders'[Len(orders')].cancelledAt = Null
              /\ orders'[Len(orders')].adminMessage = ""
       /\ (/\ req.op = "placeOrder" /\ res.status = 201
           /\ req'.op = "cancel" /\ req'.id = res.order._id) =>
              res'.status = 200]_vars

C10_Witness ==
    /\ req.op = "placeOrder"
    /\ res.status = 201
    /\ Has(req.body, "orderStatus") /\ req.body.orderStatus = Shipped
    /\ Has(req.body, "deliveredAt")
    /\ orders[Len(orders)].orderStatus = Pending

\* some stored order of buyer u holds product p and has status st
OrderedWithStatus(u, p, st) ==
    \E i \in DOMAIN orders :
        /\ orders[i].userId = u
        /\ orders[i].orderStatus = st
        /\ \E k \in DOMAIN orders[i].products : orders[i].products[k].productId = p

\* C8: a well-formed review by a user who has not reviewed the product yet
\* is accepted (201) exactly when a stored order of that user holds the
\* product and is 'Delivered & Confirmed', and is refused (403) otherwise.
C8_EligibilityIff ==
    [][(/\ req'.op = "submitReview"
        /\ isValidObjectId(req'.body.productId) /\ isValidObjectId(req'.body.userId)
        /\ req'.body.rating \in 1..5
        /\ ~\E r \in reviews :
               r.productId = req'.body.productId /\ r.userId = req'.body.userId) =>
          /\ res'.status \in {201, 403}
          /\ res'.status = 201 <=>
                 OrderedWithStatus(req'.body.userId, req'.body.productId,
                                   DeliveredConfirmed)]_vars

\* refused although another buyer's order of the product is confirmed and the
\* user's own order of it is Delivered
C8_Witness ==
    /\ req.op = "submitReview"
    /\ res.status = 403
    /\ OrderedWithStatus(req.body.userId, req.body.productId, Delivered)
    /\ \E u \in {1, 2} :
           /\ u # req.body.userId
           /\ OrderedWithStatus(u, req.body.productId, DeliveredConfirmed)

\* C9: once user u is eligible to review product p, u stays eligible after
\* every step.
C9_EligibilityMonotonic ==
    [][\A u \in {1, 2}, p \in {1, 2} :
          hasPurchasedAndConfirmed(u, p) => hasPurchasedAndConfirmed(u, p)']_vars

\* eligible, and the admin's attempt to move the confirmed order was refused
C9_Witness ==
    /\ req.op = "adminUpdate"
    /\ res.status = 400
    /\ req.id \in DOMAIN orders
    /\ orders[req.id].orderStatus = DeliveredConfirmed
    /\ hasPurchasedAndConfirmed(orders[req.id].userId, 2)
    /\ reviews # {}

\* the request lacks what the claim names: no line items, a line item with
\* a malformed or missing product id, no name, no price or a quantity of
\* zero or less, a shipping-address field missing, a payment method missing
\* or outside the two accepted, a total missing or of zero or less
DefectiveItem(item) ==
    \/ ~Has(item, "productId") \/ item.productId = MalformedId
    \/ ~Has(item, "name")
    \/ ~Has(item, "price")
    \/ (Has(item, "quantity") /\ item.quantity <= 0)

DefectiveOrder(body) ==
    \/ ~Has(body, "products")
    \/ (Has(body, "products") /\
           (\/ body.products = <<>>
            \/ \E k \in DOMAIN body.products : DefectiveItem(body.products[k])))
    \/ ~Has(body, "shippingAddress")
    \/ (Has(body, "shippingAddress") /\
           \E f \in AddressFields : ~Has(body.shippingAddress, f))
    \/ ~Has(body, "paymentMethod")
    \/ (Has(body, "paymentMethod") /\
           body.paymentMethod \notin {"Cash on Delivery", "Google Pay"})
    \/ ~Has(body, "totalPrice")
    \/ (Has(body, "totalPrice") /\ body.totalPrice <= 0)

\* C11: an order placement whose request is defective in one of the ways
\* above is answered 400 and the order collection is unchanged.
C11_PlaceRejectsDefective ==
    [][(req'.op = "placeOrder" /\ DefectiveOrder(req'.body)) =>
          /\ res'.status = 400
          /\ orders' = orders]_vars

\* a total of zero refused with an order already stored
C11_Witness ==
    /\ req.op = "placeOrder"
    /\ Has(req.body, "totalPrice") /\ req.body.totalPrice = 0
    /\ res = Reply(400, "Total price must be greater than zero.")
    /\ Len(orders) = 1

\* the status and delivery option the request supplies, if any, are values
\* of their enumerations
SuppliesEnumValues(body) ==
    /\ Has(body, "orderStatus") =>
           body.orderStatus \in
               {Pending, Confirmed, Processing, Shipped, Delivered, Cancelled,
                DeliveredConfirmed}
    /\ Has(body, "deliveryOption") =>
           body.deliveryOption \in {Stage1, Stage2, Stage3, Stage4, Stage5}

\* the step is an admin update, with such a request, of a stored order that
\* is neither 'Delivered & Confirmed' nor 'Cancelled'
AdminUpdatesOpenOrder ==
    /\ OnOrder("adminUpdate")
    /\ orders[Target].orderStatus \notin {DeliveredConfirmed, Cancelled}
    /\ SuppliesEnumValues(req'.body)

\* the update is accepted; status and delivery option are the supplied
\* values, or the previous ones when not supplied
AdminSetsStatusAndOption ==
    /\ res'.status = 200
    /\ orders'[Target].orderStatus =
           IF Has(req'.body, "orderStatus") THEN req'.body.orderStatus
           ELSE orders[Target].orderStatus
    /\ orders'[Target].deliveryOption =
           IF Has(req'.body, "deliveryOption") THEN req'.body.deliveryOption
           ELSE orders[Target].deliveryOption

\* C12 as claimed: such an update is accepted whatever the combination of
\* status and delivery option, each of status, delivery option and admin
\* message becomes the supplied value when supplied and keeps its previous
\* value when not.
C12_AdminOverwritesSupplied ==
    [][AdminUpdatesOpenOrder =>
          /\ AdminSetsStatusAndOption
          /\ orders'[Target].adminMessage =
                 IF Has(req'.body, "adminMessage") THEN req'.body.adminMessage
                 ELSE orders[Target].adminMessage]_vars

\* C12 as amended: the same, but a supplied admin message is stored with its
\* leading and trailing whitespace removed.
C12_AdminOverwritesTrimmed ==
    [][AdminUpdatesOpenOrder =>
          /\ AdminSetsStatusAndOption
          /\ orders'[Target].adminMessage =
                 IF ~Has(req'.body, "adminMessage") THEN orders[Target].adminMessage
                 ELSE IF req'.body.adminMessage = " late " THEN "late"
                 ELSE req'.body.adminMessage]_vars

\* a Pending order at 'Arriving Today' whose message was kept by an update
\* that supplied neither
C12_Witness ==
    /\ req.op = "adminUpdate"
    /\ DOMAIN req.body = {"orderStatus", "deliveryOption"}
    /\ req.body.orderStatus = Pending
    /\ res.status = 200
    /\ orders[req.id].orderStatus = Pending
    /\ orders[req.id].deliveryOption = Stage5
    /\ orders[req.id].adminMessage = "late"

\* C13: an admin update, confirm-received or cancel either is answered 200
\* and stores the order it returns, or leaves the order collection exactly
\* as it was; one answered 500 (the save failed) leaves it as it was, so
\* no second save was made, and carries the handler's failure message.
C13_FailedSaveKeepsOrder ==
    [][req'.op \in {"adminUpdate", "confirmReceived", "cancel"} =>
          /\ res'.status = 500 => orders' = orders
          /\ res'.status = 200 => orders'[Target] = res'.order
          /\ res'.status \notin {200, 500} => orders' = orders
          /\ res'.status = 500 =>
                 res'.message \in {"Failed to update order.",
                                   "Failed to confirm order receipt.",
                                   "Failed to cancel order."}]_vars

\* a cancel of a Pending order at option 1 met a store that was down
C13_Witness ==
    /\ req.op = "cancel"
    /\ res = Reply(500, "Failed to cancel order.")
    /\ orders[req.id].orderStatus = Pending
    /\ orders[req.id].deliveryOption = Stage1
    /\ orders[req.id].adminMessage = "late"
    /\ orders[req.id].cancelledAt = Null

C15_NotBothTimestamps ==
    \A i \in DOMAIN orders :
        ~(orders[i].deliveredAt # Null /\ orders[i].cancelledAt # Null)

\* a cancelled order, stamped, whose confirmation of receipt was refused
C15_Witness ==
    /\ req.op = "confirmReceived"
    /\ res.status = 400
    /\ req.id \in DOMAIN orders
    /\ orders[req.id].cancelledAt # Null
    /\ orders[req.id].deliveredAt = Null

\* C16: in every step in which the status of an order becomes Cancelled, the
\* status before was Pending, Confirmed or Processing and the delivery
\* option before was option 1 or option 2.
C16_CancelledOnlyThroughGuard ==
    [][\A i \in DOMAIN orders :
          (orders[i].orderStatus # Cancelled /\ orders'[i].orderStatus = Cancelled) =>
              /\ orders[i].orderStatus \in {Pending, Confirmed, Processing}
              /\ orders[i].deliveryOption \in {Stage1, Stage2}]_vars

\* the place of a delivery option in the order option 1 < ... < option 5
StageRank(option) ==
    CASE option = Stage1 -> 1
      [] option = Stage2 -> 2
      [] option = Stage3 -> 3
      [] option = Stage4 -> 4
      [] option = Stage5 -> 5

\* C17: no step moves the delivery option of an order to an earlier stage.
C17_StageNeverDecreases ==
    [][\A i \in DOMAIN orders :
          StageRank(orders'[i].deliveryOption) >= StageRank(orders[i].deliveryOption)]_vars

\* C19: an admin update, confirm-received or cancel, accepted or refused,
\* leaves the _id, userId, line items, shipping address, payment method,
\* totalPrice and createdAt of every stored order as they were.
C19_PlacementFieldsKept ==
    [][req'.op \in {"adminUpdate", "confirmReceived", "cancel"} =>
          \A i \in DOMAIN orders :
              /\ i \in DOMAIN orders'
              /\ orders'[i]._id = orders[i]._id
              /\ orders'[i].userId = orders[i].userId
              /\ orders'[i].products = orders[i].products
              /\ orders'[i].shippingAddress = orders[i].shippingAddress
              /\ orders'[i].paymentMethod = orders[i].paymentMethod
              /\ orders'[i].totalPrice = orders[i].totalPrice
              /\ orders'[i].createdAt = orders[i].createdAt]_vars

\* an accepted admin update, saved after the order was created
C19_Witness ==
    /\ req.op = "adminUpdate"
    /\ res.status = 200
    /\ orders[req.id].updatedAt > orders[req.id].createdAt
    /\ orders[req.id].orderStatus = Processing
    /\ orders[req.id].totalPrice = 500

\* C18: every order stored before a step is stored after it, whatever the
\* step: a request on orders, reviews, products or users.
C18_OrdersNeverRemoved ==
    [][\A i \in DOMAIN orders :
          \E j \in DOMAIN orders' : orders'[j]._id = orders[i]._id]_vars

\* the buyer of a stored order was deleted, and so was the product it holds
C18_Witness ==
    /\ req.op = "deleteUser"
    /\ res.status = 200
    /\ \E i \in DOMAIN orders :
           /\ orders[i].userId = req.id
           /\ \A p \in products : p._id # orders[i].products[1].productId
    /\ nextProductId > 1
    /\ reviews # {}

\* C20: a product update or a product deletion leaves the line items and
\* the totalPrice of every stored order as they were.
C20_LineItemsAreSnapshots ==
    [][req'.op \in {"updateProduct", "deleteProduct"} =>
          \A i \in DOMAIN orders :
              /\ i \in DOMAIN orders'
              /\ orders'[i].products = orders[i].products
              /\ orders'[i].totalPrice = orders[i].totalPrice]_vars

\* the product was renamed and repriced, the order still holds the name and
\* the price it was placed with
C20_Witness ==
    /\ req.op = "updateProduct"
    /\ res.status = 200
    /\ res.product.name = "Cup"
    /\ res.product.price = 8
    /\ \E i \in DOMAIN orders :
           /\ orders[i].products[1].productId = res.product._id
           /\ orders[i].products[1].name = "Mug"
           /\ orders[i].products[1].price = 250

\* C21: deliveredAt and cancelledAt of an order are null when it is placed,
\* and a step never changes either of them once it is not null.
C21_TimestampsSetOnce ==
    [][/\ \A i \in DOMAIN orders :
            /\ orders[i].deliveredAt # Null => orders'[i].deliveredAt = orders[i].deliveredAt
            /\ orders[i].cancelledAt # Null => orders'[i].cancelledAt = orders[i].cancelledAt
       /\ \A i \in DOMAIN orders' \ DOMAIN orders :
            /\ orders'[i].deliveredAt = Null
            /\ orders'[i].cancelledAt = Null]_vars

\* receipt was confirmed, and a later confirmation, at a later reading of
\* the clock, was refused
C21_Witness ==
    /\ req.op = "confirmReceived"
    /\ res.status = 400
    /\ req.id \in DOMAIN orders
    /\ orders[req.id].deliveredAt # Null
    /\ now > orders[req.id].deliveredAt

\* C22: an accepted admin update, confirm-received or cancel leaves the
\* updatedAt of its order at the time of the request, which is not before
\* the value it replaces nor before createdAt; a refused one, and every
\* request on another order, leaves updatedAt as it was.
C22_UpdatedAtStamped ==
    [][\A i \in DOMAIN orders :
          IF /\ req'.op \in {"adminUpdate", "confirmReceived", "cancel"}
             /\ req'.id = i
             /\ res'.status = 200
          THEN /\ orders'[i].updatedAt = now'
               /\ orders'[i].updatedAt >= orders[i].updatedAt
               /\ orders'[i].updatedAt >= orders'[i].createdAt
          ELSE orders'[i].updatedAt = orders[i].updatedAt]_vars

\* an admin update with an empty body was accepted after the order was
\* placed, and stamped
C22_Witness ==
    /\ req.op = "adminUpdate"
    /\ req.body = EmptyBody
    /\ res.status = 200
    /\ orders[req.id].updatedAt > orders[req.id].createdAt
    /\ orders[req.id].orderStatus = Pending

\* what a lifecycle request rq makes of an order, told from that order and
\* the request alone: the status of the response and the order stored
OwnOutcome(order, rq, t) ==
    IF rq.op = "adminUpdate"
    THEN LET doc == applyAdminFields(order, rq.body) IN
         IF \/ order.orderStatus \in {DeliveredConfirmed, Cancelled}
            \/ doc.orderStatus \notin orderStatusEnum
            \/ doc.deliveryOption \notin deliveryOptionEnum
         THEN [status |-> 400, order |-> order]
         ELSE [status |-> 200, order |-> [doc EXCEPT !.updatedAt = t]]
    ELSE IF rq.op = "confirmReceived"
    THEN IF order.orderStatus \in {DeliveredConfirmed, Cancelled}
         THEN [status |-> 400, order |-> order]
         ELSE [status |-> 200,
               order |-> [order EXCEPT !.orderStatus = DeliveredConfirmed,
                                       !.deliveredAt = t, !.updatedAt = t]]
    ELSE IF \/ order.orderStatus \notin {Pending, Confirmed, Processing}
            \/ order.deliveryOption \notin {Stage1, Stage2}
         THEN [status |-> 400, order |-> order]
         ELSE [status |-> 200,
               order |-> [order EXCEPT !.orderStatus = Cancelled,
                                       !.cancelledAt = t, !.updatedAt = t]]

\* C23: an admin update, confirm-received or cancel addressed to a stored
\* order leaves every other order as it was, and its response and the new
\* value of its own order are told by that order and the request alone.
C23_OrdersIndependent ==
    [][OnOrder("adminUpdate") \/ OnOrder("confirmReceived") \/ OnOrder("cancel") =>
          /\ DOMAIN orders' = DOMAIN orders
          /\ \A i \in DOMAIN orders : i # Target => orders'[i] = orders[i]
          /\ res'.status = OwnOutcome(orders[Target], req', now').status
          /\ orders'[Target] = OwnOutcome(orders[Target], req', now').order]_vars

\* the first order was cancelled while the second, of another buyer, had
\* been shipped and stays shipped
C23_Witness ==
    /\ req.op = "cancel"
    /\ res.status = 200
    /\ req.id = 1
    /\ Len(orders) = 2
    /\ orders[1].orderStatus = Cancelled
    /\ orders[2].orderStatus = Shipped
    /\ orders[2].userId # orders[1].userId

\* C24: no two stored reviews are by the same user for the same product;
\* a submission with well-formed ids and rating is answered 409 when the
\* user has reviewed the product already and 403 when the user has not but
\* holds no confirmed order of it, and either way the reviews are unchanged.
C24_OneReviewPerPair ==
    [][/\ \A r1 \in reviews', r2 \in reviews' :
              (r1.userId = r2.userId /\ r1.productId = r2.productId) => r1 = r2
       /\ (/\ req'.op = "submitReview"
           /\ isValidObjectId(req'.body.productId) /\ isValidObjectId(req'.body.userId)
           /\ req'.body.rating \in 1..5) =>
              LET reviewed == \E r \in reviews : /\ r.productId = req'.body.productId
                                                 /\ r.userId = req'.body.userId
                  eligible == OrderedWithStatus(req'.body.userId, req'.body.productId,
                                                DeliveredConfirmed)
              IN /\ reviewed => (res'.status = 409 /\ reviews' = reviews)
                 /\ (~reviewed /\ ~eligible) => (res'.status = 403 /\ reviews' = reviews)]_vars

\* a second review of the same product by the same user was refused, while
\* another user's review of that product is stored as well
C24_Witness ==
    /\ req.op = "submitReview"
    /\ res.status = 409
    /\ \E r1 \in reviews, r2 \in reviews :
           /\ r1.userId = req.body.userId /\ r1.productId = req.body.productId
           /\ r2.userId # r1.userId /\ r2.productId = r1.productId

\* C25: in every state, each stored review is by a user with a stored
\* order that is 'Delivered & Confirmed' and holds the reviewed product.
C25_ReviewsBacked ==
    \A r \in reviews : OrderedWithStatus(r.userId, r.productId, DeliveredConfirmed)

\* the review is stored, its author's account was deleted, and an admin
\* update of the confirmed order behind it was refused
C25_Witness ==
    /\ req.op = "adminUpdate"
    /\ res.status = 400
    /\ req.id \in DOMAIN orders
    /\ orders[req.id].orderStatus = DeliveredConfirmed
    /\ \E r \in reviews : r.userId = orders[req.id].userId
    /\ users = {}
    /\ nextUserId > 1

\* the body supplies a status outside the seven, or a delivery option
\* outside the five
SuppliesOutsideSets(body) ==
    \/ /\ Has(body, "orderStatus")
       /\ body.orderStatus \notin
              {Pending, Confirmed, Processing, Shipped, Delivered, Cancelled,
               DeliveredConfirmed}
    \/ /\ Has(body, "deliveryOption")
       /\ body.deliveryOption \notin {Stage1, Stage2, Stage3, Stage4, Stage5}

\* the same, an empty string not counted as a value supplied
SuppliesNonEmptyOutsideSets(body) ==
    \/ /\ Has(body, "orderStatus")
       /\ body.orderStatus \notin
              {"", Pending, Confirmed, Processing, Shipped, Delivered, Cancelled,
               DeliveredConfirmed}
    \/ /\ Has(body, "deliveryOption")
       /\ body.deliveryOption \notin {"", Stage1, Stage2, Stage3, Stage4, Stage5}

\* after the step every stored order has its status among the seven and its
\* delivery option among the five
StatusAndOptionInSets ==
    \A i \in DOMAIN orders' :
        /\ orders'[i].orderStatus \in
               {Pending, Confirmed, Processing, Shipped, Delivered, Cancelled,
                DeliveredConfirmed}
        /\ orders'[i].deliveryOption \in {Stage1, Stage2, Stage3, Stage4, Stage5}

\* C28 as claimed: an admin update of a stored order that supplies a status
\* outside the seven or a delivery option outside the five is answered 400
\* and leaves the orders unchanged; after every step each order has its
\* status and delivery option in their sets.
C28_OutsideSetsRejected ==
    [][/\ (OnOrder("adminUpdate") /\ SuppliesOutsideSets(req'.body)) =>
              (res'.status = 400 /\ orders' = orders)
       /\ StatusAndOptionInSets]_vars

\* C28 as amended: the same for a non-empty status or delivery option
\* outside its set; an update whose only values outside the sets are empty
\* strings is treated as not supplying them, and is accepted on an order
\* that is neither 'Delivered & Confirmed' nor 'Cancelled'.
C28_NonEmptyOutsideSetsRejected ==
    [][/\ (OnOrder("adminUpdate") /\ SuppliesNonEmptyOutsideSets(req'.body)) =>
              (res'.status = 400 /\ orders' = orders)
       /\ (/\ OnOrder("adminUpdate")
           /\ SuppliesOutsideSets(req'.body)
           /\ ~SuppliesNonEmptyOutsideSets(req'.body)
           /\ orders[Target].orderStatus \notin {DeliveredConfirmed, Cancelled}) =>
              /\ res'.status = 200
              /\ orders'[Target].orderStatus = orders[Target].orderStatus
              /\ orders'[Target].deliveryOption = orders[Target].deliveryOption
       /\ StatusAndOptionInSets]_vars

\* an update with an unknown status, a valid delivery option and a message
\* was refused as invalid; the order keeps its option and has no message
C28_Witness ==
    /\ req.op = "adminUpdate"
    /\ req.body = [orderStatus |-> "Refunded", deliveryOption |-> Stage2,
                   adminMessage |-> "late"]
    /\ res = Reply(400, "Validation Error")
    /\ orders[req.id].orderStatus = Shipped
    /\ orders[req.id].deliveryOption = Stage1
    /\ orders[req.id].adminMessage = ""

\* the request of the route has saved, having loaded its order while it was
\* Pending at option 1
SavedFromPlaced(op) ==
    /\ calls[op].stage = "done"
    /\ "loaded" \in DOMAIN calls[op]
    /\ calls[op].loaded.orderStatus = Pending
    /\ calls[op].loaded.deliveryOption = Stage1

\* C26: when a confirm-received and a cancel of the same order both loaded
\* it while it was Pending at option 1, not both are answered 200, and the
\* stored order does not have both deliveredAt and cancelledAt set.
C26_RaceHasOneWinner ==
    (/\ SavedFromPlaced("confirmReceived")
     /\ SavedFromPlaced("cancel")
     /\ calls["confirmReceived"].id = calls["cancel"].id) =>
        /\ ~(/\ calls["confirmReceived"].res.status = 200
             /\ calls["cancel"].res.status = 200)
        /\ ~(/\ orders[calls["cancel"].id].deliveredAt # Null
             /\ orders[calls["cancel"].id].cancelledAt # Null)

\* C27: the save of an admin update leaves the status of every order that
\* is stored as 'Delivered & Confirmed' or 'Cancelled' as it is, and the
\* buyer of a 'Delivered & Confirmed' order keeps a 'Delivered & Confirmed'
\* order of its first product.
C27_TerminalKeptByLateSave ==
    [][(calls["adminUpdate"].stage = "loaded" /\ calls'["adminUpdate"].stage = "done") =>
          \A i \in DOMAIN orders :
              /\ orders[i].orderStatus \in {DeliveredConfirmed, Cancelled} =>
                     orders'[i].orderStatus = orders[i].orderStatus
              /\ orders[i].orderStatus = DeliveredConfirmed =>
                     OrderedWithStatus(orders[i].userId, orders[i].products[1].productId,
                                       DeliveredConfirmed)']_vars

\* the request is a product creation, or the update of a stored product
WritesProduct ==
    \/ req'.op = "createProduct"
    \/ req'.op = "updateProduct" /\ \E p \in products : p._id = req'.id

\* the stored products other than the one the request updates
OtherProducts ==
    IF req'.op = "updateProduct" THEN {p \in products : p._id # req'.id} ELSE products

\* C29: after every step no two stored products share a non-empty SKU; a
\* creation, or an update of a product that holds another SKU or none, with
\* the SKU of another stored product is answered 400 and the catalog is
\* unchanged; an update with the product's own SKU and sound prices is
\* answered 200 and the product keeps the SKU.
C29_SkuUnique ==
    [][/\ \A p \in products', q \in products' :
              (p._id # q._id /\ p.sku # "") => p.sku # q.sku
       /\ (/\ WritesProduct
           /\ Has(req'.body, "sku")
           /\ \E p \in OtherProducts : p.sku = req'.body.sku) =>
              (res'.status = 400 /\ products' = products)
       /\ (/\ req'.op = "updateProduct"
           /\ Has(req'.body, "sku")
           /\ \E p \in products : p._id = req'.id /\ p.sku = req'.body.sku
           /\ req'.body.price \in {"10", "5"}
           /\ req'.body.salePrice = "") =>
              /\ res'.status = 200
              /\ \E p \in products' : p._id = req'.id /\ p.sku = req'.body.sku]_vars

\* the update of a product with SKU B2 to the SKU A1, which another product
\* holds, was refused
C29_Witness ==
    /\ req.op = "updateProduct"
    /\ res = Reply(400, "Product with this SKU already exists.")
    /\ req.body.sku = "A1"
    /\ \E p \in products, q \in products :
           /\ p._id = req.id /\ p.sku = "B2"
           /\ q._id # req.id /\ q.sku = "A1"

\* the price and the sale price a product request carries, as numbers
\* (0 and Null when not a number)
RequestPrice == parsedPrice(req'.body)
RequestSalePrice == parsedSalePrice(req'.body)

\* C30: after every step each stored product has a price above 0 and a
\* sale price that is null or below its price; a creation, or an update of
\* a stored product, whose sale price is not below its price or whose price
\* is 0 or less is answered 400 and the catalog is unchanged.
C30_PricesSound ==
    [][/\ \A p \in products' :
              /\ p.price > 0
              /\ p.salePrice = Null \/ p.salePrice < p.price
       /\ (/\ WritesProduct
           /\ \/ RequestPrice <= 0
              \/ RequestSalePrice # Null /\ RequestSalePrice >= RequestPrice) =>
              (res'.status = 400 /\ products' = products)]_vars

\* the update of a product on sale at 8 for 10 to a sale price of 10 was
\* refused
C30_Witness ==
    /\ req.op = "updateProduct"
    /\ res = Reply(400, "Sale price must be less than the regular price.")
    /\ req.body.price = "10"
    /\ req.body.salePrice = "10"
    /\ \E p \in products : p._id = req.id /\ p.price = 10 /\ p.salePrice = 8

====
